---- MODULE Spec2Model ----
(***************************************************************************)
(* A model of src/audio.py: CMVN, Delta, Postprocess, ExtractAudioFeature, *)
(* create_transform and the mel filterbank helpers.                        *)
(*                                                                         *)
(* Numbers.  A floating point value is modelled as an extended rational    *)
(* <<n, d>>: d > 0 is the finite value n/d in lowest terms, <<1, 0>> is    *)
(* +inf, <<-1, 0>> is -inf and <<0, 0>> is NaN, with the IEEE rules numpy  *)
(* and torch follow for division by zero and for NaN.  Rounding is not     *)
(* modelled.                                                               *)
(***************************************************************************)
EXTENDS Integers, Sequences, FiniteSets, TLC

VARIABLES
    mel_args,      \* arguments of the last create_mel_filterbank call
    mel_ret,       \* what that call returned (the weights), or NoValue
    mel_exc,       \* the exception that call raised, or "none"
    mel_warnings,  \* the warnings that call emitted
    cmvn_args,     \* arguments of the last CMVN(...) construction
    cmvn,          \* the CMVN object (mode, dim, eps), or NoValue
    cmvn_exc,      \* the exception the last CMVN call raised, or "none"
    cmvn_out,      \* what the last CMVN.forward returned, or NoValue
    emph_pc,       \* "start", "emphasized" or "restored"
    emph_c,        \* preemphasis_coeff
    emph_x,        \* the waveform given to _preemphasis
    emph_y,        \* what _preemphasis returned
    emph_z,        \* what _inv_preemphasis returned for emph_y
    delta_args,    \* arguments of the last Delta(...) construction
    delta,         \* the Delta object (order, window_size, filters, padding)
    delta_exc,     \* the exception the last Delta call raised, or "none"
    delta_in,      \* the tensor given to the last Delta.forward
    delta_out,     \* what that forward returned, or NoValue
    pipe_args,     \* arguments of the last create_transform call
    pipe_transforms, \* the stages of the nn.Sequential it built
    pipe_feat_dim, \* the feature dimension it returned
    pipe_exc,      \* the exception it raised, or "none"
    pipe_stage,    \* index of the next stage the running Sequential applies
    pipe_in,       \* the mel features ExtractAudioFeature.forward produced
    pipe_x,        \* the value passed from stage to stage
    griffin_lim_iter, \* the module global GRIFFIN_LIM_ITER, as last set
    ext,           \* the ExtractAudioFeature object, or NoValue
    ext_exc,       \* the exception its construction raised, or "none"
    ext_call,      \* the method of ext being called, or "none"
    ext_pc,        \* "idle", "griffin_lim" (in the loop) or "returned"
    ext_in,        \* the argument of that call
    ext_out,       \* what the call returned, or NoValue
    gl,            \* the locals of _griffin_lim, or NoValue
    pinv_count,    \* calls of torch.pinverse made for ext so far
    scale_pc,      \* "start", "mels" or "restored"
    scale_htk,     \* the htk argument of both conversions
    scale_f,       \* the frequencies given to hz_to_mel
    scale_m,       \* what hz_to_mel returned
    scale_g        \* what mel_to_hz returned for scale_m

melVars == <<mel_args, mel_ret, mel_exc, mel_warnings>>

cmvnVars == <<cmvn_args, cmvn, cmvn_exc, cmvn_out>>

emphVars == <<emph_pc, emph_c, emph_x, emph_y, emph_z>>

deltaVars == <<delta_args, delta, delta_exc, delta_in, delta_out>>

pipeVars == <<pipe_args, pipe_transforms, pipe_feat_dim, pipe_exc,
              pipe_stage, pipe_in, pipe_x>>

extVars == <<griffin_lim_iter, ext, ext_exc, ext_call, ext_pc, ext_in,
             ext_out, gl, pinv_count>>

scaleVars == <<scale_pc, scale_htk, scale_f, scale_m, scale_g>>

vars == <<melVars, cmvnVars, emphVars, deltaVars, pipeVars, extVars,
          scaleVars>>

notMelVars == <<cmvnVars, emphVars, deltaVars, pipeVars, extVars,
    scaleVars>>

notCmvnVars == <<melVars, emphVars, deltaVars, pipeVars, extVars,
    scaleVars>>

notEmphVars == <<melVars, cmvnVars, deltaVars, pipeVars, extVars,
    scaleVars>>

notDeltaVars == <<melVars, cmvnVars, emphVars, pipeVars, extVars,
    scaleVars>>

notPipeVars == <<melVars, cmvnVars, emphVars, deltaVars, extVars,
    scaleVars>>

notExtVars == <<melVars, cmvnVars, emphVars, deltaVars, pipeVars,
    scaleVars>>

notScaleVars == <<melVars, cmvnVars, emphVars, deltaVars, pipeVars, extVars>>

NoValue == <<>>

(***************************************************************************)
(* Extended rational arithmetic                                            *)
(***************************************************************************)
Abs(a) == IF a < 0 THEN -a ELSE a

Sgn(a) == IF a > 0 THEN 1 ELSE IF a < 0 THEN -1 ELSE 0

\* Op applied to the value of v, which is computed once
With(v, Op(_)) == CHOOSE r \in {Op(x) : x \in {v}} : TRUE

RECURSIVE GCD(_, _)
GCD(a, b) == IF b = 0 THEN a ELSE GCD(b, a % b)

Norm(n, d) ==
    IF d = 0 THEN <<Sgn(n), 0>>
    ELSE LET g == GCD(Abs(n), Abs(d))
         IN  <<(Sgn(d) * n) \div g, Abs(d) \div g>>

R(n) == <<n, 1>>

NaN == <<0, 0>>

IsNaN(a) == a = NaN

IsFinite(a) == a[2] > 0

RNeg(a) == <<-a[1], a[2]>>

RAdd(a, b) ==
    IF a[2] > 0 /\ b[2] > 0
    THEN With(GCD(a[2], b[2]), LAMBDA g :
            Norm(a[1] * (b[2] \div g) + b[1] * (a[2] \div g),
                 a[2] * (b[2] \div g)))
    ELSE IF a[2] = 0 /\ b[2] = 0 THEN (IF a[1] = b[1] THEN a ELSE NaN)
    ELSE IF a[2] = 0 THEN a ELSE b

RSub(a, b) == RAdd(a, RNeg(b))

RMul(a, b) == Norm(a[1] * b[1], a[2] * b[2])

RDiv(a, b) ==
    IF a[2] = 0 /\ b[2] # 0
    THEN <<a[1] * (IF b[1] < 0 THEN -1 ELSE 1), 0>>
    ELSE Norm(a[1] * b[2], a[2] * b[1])

RLess(a, b) ==
    IF IsNaN(a) \/ IsNaN(b) THEN FALSE
    ELSE IF a[2] = 0 /\ b[2] = 0 THEN a[1] < b[1]
    ELSE IF a[2] = 0 \/ b[2] = 0 THEN a[1] * b[2] < b[1] * a[2]
    ELSE With(GCD(a[2], b[2]), LAMBDA g :
            a[1] * (b[2] \div g) < b[1] * (a[2] \div g))

RLeq(a, b) == ~IsNaN(a) /\ ~IsNaN(b) /\ ~RLess(b, a)

\* np.minimum / np.maximum / torch.clamp: NaN propagates
RMin(a, b) == IF IsNaN(a) \/ IsNaN(b) THEN NaN ELSE IF RLess(b, a) THEN b ELSE a

RMax(a, b) == IF IsNaN(a) \/ IsNaN(b) THEN NaN ELSE IF RLess(a, b) THEN b ELSE a

RECURSIVE RPow(_, _)
RPow(a, k) == IF k = 0 THEN R(1) ELSE RMul(a, RPow(a, k - 1))

RECURSIVE SumTo(_, _)
SumTo(s, n) == IF n = 0 THEN R(0) ELSE RAdd(SumTo(s, n - 1), s[n])

RSum(s) == With(s, LAMBDA v : SumTo(v, Len(v)))

\* the maximum of s[lo..hi], by halves
RECURSIVE MaxTo(_, _, _)
MaxTo(s, lo, hi) ==
    IF lo = hi THEN s[lo]
    ELSE With(<<MaxTo(s, lo, (lo + hi) \div 2),
                MaxTo(s, (lo + hi) \div 2 + 1, hi)>>,
              LAMBDA p : RMax(p[1], p[2]))

\* ndarray.max() of a non-empty vector
RMaxOf(s) == With(s, LAMBDA v : MaxTo(v, 1, Len(v)))

(***************************************************************************)
(* Frequency scale: hz_to_mel, mel_to_hz                                   *)
(*                                                                         *)
(* The linear part of the Slaney scale is exact.  log and exp have exact   *)
(* rational values only on a lattice: np.log(f / 1000) / logstep with      *)
(* logstep = np.log(6.4) / 27 is 27 * j exactly when f = 1000 * 6.4^j, and *)
(* 2595 * log10(1 + f / 700) is 2595 * j exactly when f = 700 * (10^j - 1).*)
(* The model evaluates the two conversions on those points only.           *)
(***************************************************************************)
MaxLogSteps == 2

F_SP == <<200, 3>>

MIN_LOG_HZ == R(1000)

MIN_LOG_MEL == RDiv(RSub(MIN_LOG_HZ, R(0)), F_SP)

LOG_BASE == <<32, 5>>

LOG_STEPS == 27

\* np.log(x) / logstep for x on the lattice 6.4^j
LogOverLogstep(x) ==
    R(LOG_STEPS * (CHOOSE j \in 0..MaxLogSteps : x = RPow(LOG_BASE, j)))

\* np.exp(logstep * m) for m on the lattice 27 * j
ExpOfLogstepTimes(m) ==
    RPow(LOG_BASE, CHOOSE j \in 0..MaxLogSteps : m = R(LOG_STEPS * j))

AMP_MIN_EXP == 5

\* np.log10(x) / torch.log10(x) for x on the lattice 10^j
Log10(x) ==
    IF IsNaN(x) THEN NaN
    ELSE IF RLess(x, R(1))
    THEN R(-(CHOOSE j \in 1..AMP_MIN_EXP : RMul(x, RPow(R(10), j)) = R(1)))
    ELSE R(CHOOSE j \in 0..MaxLogSteps : x = RPow(R(10), j))

\* 10.0 ** m for m a small integer
Pow10(m) ==
    IF IsNaN(m) THEN NaN
    ELSE IF RLess(m, R(0))
    THEN RDiv(R(1), RPow(R(10), CHOOSE j \in 1..AMP_MIN_EXP : m = R(-j)))
    ELSE RPow(R(10), CHOOSE j \in 0..MaxLogSteps : m = R(j))

hz_to_mel(frequencies, htk) ==
    IF htk
    THEN RMul(R(2595), Log10(RAdd(R(1), RDiv(frequencies, R(700)))))
    ELSE IF RLeq(MIN_LOG_HZ, frequencies)
         THEN RAdd(MIN_LOG_MEL, LogOverLogstep(RDiv(frequencies, MIN_LOG_HZ)))
         ELSE RDiv(RSub(frequencies, R(0)), F_SP)

\* the linear part divides by f_sp
mel_to_hz_divides(mels, htk) ==
    IF htk
    THEN RMul(R(700), RSub(Pow10(RDiv(mels, R(2595))), R(1)))
    ELSE IF RLeq(MIN_LOG_MEL, mels)
         THEN RMul(MIN_LOG_HZ, ExpOfLogstepTimes(RSub(mels, MIN_LOG_MEL)))
         ELSE RAdd(R(0), RDiv(mels, F_SP))

mel_to_hz(mels, htk) ==
    IF htk
    THEN RMul(R(700), RSub(Pow10(RDiv(mels, R(2595))), R(1)))
    ELSE IF RLeq(MIN_LOG_MEL, mels)
         THEN RMul(MIN_LOG_HZ, ExpOfLogstepTimes(RSub(mels, MIN_LOG_MEL)))
         ELSE RAdd(R(0), RMul(F_SP, mels))

\* lines 689-707 for an array (frequencies.ndim > 0): every element by the
\* linear formula, then those of the mask log_t overwritten
hz_to_mel_nd(frequencies, htk) ==
    IF htk
    THEN [i \in 1..Len(frequencies) |->
             RMul(R(2595), Log10(RAdd(R(1), RDiv(frequencies[i], R(700)))))]
    ELSE LET mels == [i \in 1..Len(frequencies) |->
                         RDiv(RSub(frequencies[i], R(0)), F_SP)]
             log_t == [i \in 1..Len(frequencies) |->
                          RLeq(MIN_LOG_HZ, frequencies[i])]
         IN  [i \in 1..Len(frequencies) |->
                 IF log_t[i]
                 THEN RAdd(MIN_LOG_MEL,
                           LogOverLogstep(RDiv(frequencies[i], MIN_LOG_HZ)))
                 ELSE mels[i]]

\* lines 757-773 for an array (mels.ndim > 0)
mel_to_hz_nd(mels, htk) ==
    IF htk
    THEN [i \in 1..Len(mels) |->
             RMul(R(700), RSub(Pow10(RDiv(mels[i], R(2595))), R(1)))]
    ELSE LET freqs == [i \in 1..Len(mels) |-> RAdd(R(0), RMul(F_SP, mels[i]))]
             log_t == [i \in 1..Len(mels) |-> RLeq(MIN_LOG_MEL, mels[i])]
         IN  [i \in 1..Len(mels) |->
                 IF log_t[i]
                 THEN RMul(MIN_LOG_HZ,
                           ExpOfLogstepTimes(RSub(mels[i], MIN_LOG_MEL)))
                 ELSE freqs[i]]

(***************************************************************************)
(* np.linspace, fft_frequencies, mel_frequencies                           *)
(***************************************************************************)
linspace(start, stop, num) ==
    [i \in 1..num |->
        IF num = 1 THEN start
        ELSE IF i = num THEN stop
        ELSE RAdd(start, RMul(R(i - 1), RDiv(RSub(stop, start), R(num - 1))))]

NumBins(n_fft) == 1 + n_fft \div 2

fft_frequencies(sr, n_fft) == linspace(R(0), RDiv(R(sr), R(2)), NumBins(n_fft))

mel_frequencies(n_mels, fmin, fmax, htk) ==
    LET min_mel == hz_to_mel(fmin, htk)
        max_mel == hz_to_mel(fmax, htk)
    IN  With(linspace(min_mel, max_mel, n_mels),
             LAMBDA mels : [i \in 1..n_mels |-> mel_to_hz(mels[i], htk)])

(***************************************************************************)
(* create_mel_filterbank                                                   *)
(*                                                                         *)
(* A call ends in a record: exc is the exception it raised ("none" when it *)
(* returned), ret the returned weights, warnings what it emitted.  The     *)
(* module imports neither `warnings` nor a ParameterError, so evaluating   *)
(* either name raises NameError.                                           *)
(***************************************************************************)
Raised(e) == [exc |-> e, ret |-> NoValue, warnings |-> <<>>]

Returned(v) == [exc |-> "none", ret |-> v, warnings |-> <<>>]

SupportedNorms == {"None", "1", "inf"}

\* line 538: np.all((mel_f[:-2] == 0) | (weights.max(axis=1) > 0))
NoEmptyFilters(mel_f, weights, n_mels) ==
    \A i \in 1..n_mels : mel_f[i] = R(0) \/ RLess(R(0), RMaxOf(weights[i]))

\* lines 537-545: the check for empty channels and the return
CheckWeights(mel_f, weights, n_mels) ==
    IF ~NoEmptyFilters(mel_f, weights.data, n_mels)
    THEN Raised("NameError")        \* warnings.warn: `warnings` is not imported
    ELSE Returned(weights)

\* a two-dimensional array: its shape and its rows
NDArray(shape, rows) == [shape |-> shape, data |-> rows]

\* lines 505-506: fmax defaults to the Nyquist frequency
DefaultFmax(sr, fmax_arg) ==
    IF fmax_arg = NoValue THEN RDiv(R(sr), R(2)) ELSE fmax_arg

\* lines 521-535: the weights from the FFT bin frequencies and band edges
\* (ramps[i][k] is mel_f[i] - fftfreqs[k], fdiff[i] is mel_f[i+1] - mel_f[i])
MelWeights(fftfreqs, mel_f, n_mels, nb, norm) ==
    [i \in 1..n_mels |-> [k \in 1..nb |->
        LET lower == RDiv(RNeg(RSub(mel_f[i], fftfreqs[k])),
                          RSub(mel_f[i + 1], mel_f[i]))
            upper == RDiv(RSub(mel_f[i + 2], fftfreqs[k]),
                          RSub(mel_f[i + 2], mel_f[i + 1]))
            enorm == RDiv(R(2), RSub(mel_f[i + 2], mel_f[i]))
        IN  With(RMax(R(0), RMin(lower, upper)),
                 LAMBDA w : IF norm = "1" THEN RMul(w, enorm) ELSE w)]]

\* lines 511-535: the band edges mel_f and the weights, before the check
MelBasis(sr, n_fft, n_mels, fmin, fmax, htk, norm) ==
    With(<<fft_frequencies(sr, n_fft),
           mel_frequencies(n_mels + 2, fmin, fmax, htk)>>,
         LAMBDA a :
            [mel_f   |-> a[2],
             weights |-> NDArray(<<n_mels, NumBins(n_fft)>>,
                            MelWeights(a[1], a[2], n_mels, NumBins(n_fft),
                                       norm))])

create_mel_filterbank(sr, n_fft, n_mels, fmin, fmax_arg, htk, norm) ==
    IF norm \notin SupportedNorms
    THEN Raised("NameError")        \* raise ParameterError: not defined
    ELSE IF n_mels < 0
    THEN Raised("ValueError")       \* np.zeros: negative dimensions
    ELSE With(MelBasis(sr, n_fft, n_mels, fmin,
                       DefaultFmax(sr, fmax_arg), htk, norm),
              LAMBDA b : CheckWeights(b.mel_f, b.weights, n_mels))

(***************************************************************************)
(* SpecMel: callers of create_mel_filterbank                               *)
(***************************************************************************)
MaxMels == 3

MelSampleRates == {0, 1000, 2000}

MelFFTSizes == {2, 4, 8}

MelFmins == {R(0), R(250), R(500)}

MelFmaxs == {NoValue, R(250), R(500)}

MelNorms == {"1", "None", "2"}

MelIdle ==
    /\ mel_args = NoValue
    /\ mel_ret = NoValue
    /\ mel_exc = "none"
    /\ mel_warnings = <<>>

CmvnIdle ==
    /\ cmvn_args = NoValue
    /\ cmvn = NoValue
    /\ cmvn_exc = "none"
    /\ cmvn_out = NoValue

EmphIdle ==
    /\ emph_pc = "start"
    /\ emph_c = R(0)
    /\ emph_x = <<>>
    /\ emph_y = <<>>
    /\ emph_z = <<>>

ScaleIdle ==
    /\ scale_pc = "start"
    /\ scale_htk = FALSE
    /\ scale_f = [ndim |-> 0, v |-> <<R(0)>>]
    /\ scale_m = NoValue
    /\ scale_g = NoValue

DeltaIdle ==
    /\ delta_args = NoValue
    /\ delta = NoValue
    /\ delta_exc = "none"
    /\ delta_in = NoValue
    /\ delta_out = NoValue

PipeIdle ==
    /\ pipe_args = NoValue
    /\ pipe_transforms = <<>>
    /\ pipe_feat_dim = 0
    /\ pipe_exc = "none"
    /\ pipe_stage = 0
    /\ pipe_in = NoValue
    /\ pipe_x = NoValue

GRIFFIN_LIM_ITER == 50

ExtIdle ==
    /\ griffin_lim_iter = GRIFFIN_LIM_ITER
    /\ ext = NoValue
    /\ ext_exc = "none"
    /\ ext_call = "none"
    /\ ext_pc = "idle"
    /\ ext_in = NoValue
    /\ ext_out = NoValue
    /\ gl = NoValue
    /\ pinv_count = 0

MelInit ==
    MelIdle /\ CmvnIdle /\ EmphIdle /\ DeltaIdle /\ PipeIdle /\ ExtIdle /\ ScaleIdle

CallCreateMelFilterbank(sr, n_fft, n_mels, fmin, fmax, norm) ==
    /\ mel_args = NoValue
    /\ \E r \in {create_mel_filterbank(sr, n_fft, n_mels, fmin, fmax,
                                       FALSE, norm)} :
        /\ mel_args' = [sr |-> sr, n_fft |-> n_fft, n_mels |-> n_mels,
                        fmin |-> fmin, fmax |-> fmax, norm |-> norm]
        /\ mel_ret' = r.ret
        /\ mel_exc' = r.exc
        /\ mel_warnings' = r.warnings
        /\ UNCHANGED notMelVars

\* the caller is done with the result and is free to call again
MelCallerContinues ==
    /\ mel_args # NoValue
    /\ mel_args' = NoValue
    /\ mel_ret' = NoValue
    /\ mel_exc' = "none"
    /\ mel_warnings' = <<>>
    /\ UNCHANGED notMelVars

MelNext ==
    \/ MelCallerContinues
    \/ \E sr \in MelSampleRates, n_fft \in MelFFTSizes, n_mels \in (-1)..MaxMels,
       fmin \in MelFmins, fmax \in MelFmaxs, norm \in MelNorms :
        CallCreateMelFilterbank(sr, n_fft, n_mels, fmin, fmax, norm)

SpecMel == MelInit /\ [][MelNext]_vars

(***************************************************************************)
(* Claims about create_mel_filterbank                                      *)
(***************************************************************************)
MelCalled == mel_args # NoValue

MelArgsDegenerate ==
    \/ mel_args.n_mels <= 0
    \/ RLeq(DefaultFmax(mel_args.sr, mel_args.fmax), mel_args.fmin)

\* C2 (as claimed): a call with n_mels <= 0 or fmin >= fmax is rejected with
\* an error; it never returns a weight matrix.
C2_DegenerateRejected ==
    (MelCalled /\ MelArgsDegenerate) => (mel_exc # "none" /\ mel_ret = NoValue)

\* the weights of the last call have a band whose peak is zero (or not a
\* number) although the band's lower edge is not 0 Hz
MelHasEmptyBand ==
    /\ mel_args.norm \in SupportedNorms
    /\ mel_args.n_mels >= 0
    /\ \E b \in {MelBasis(mel_args.sr, mel_args.n_fft, mel_args.n_mels,
                           mel_args.fmin,
                           DefaultFmax(mel_args.sr, mel_args.fmax),
                           FALSE, mel_args.norm)} :
          \E i \in 1..mel_args.n_mels :
              b.mel_f[i] # R(0) /\ ~RLess(R(0), RMaxOf(b.weights.data[i]))

\* C3 (as claimed): an empty band only raises a warning: the call completes
\* and returns the full weight matrix, having warned.
C3_EmptyBandOnlyWarns ==
    (MelCalled /\ MelHasEmptyBand) =>
        (mel_exc = "none" /\ mel_ret # NoValue /\ mel_warnings # <<>>)

\* C11: for n_mels >= 1 and fmin < fmax, create_mel_filterbank returns a
\* matrix of n_mels rows and n_fft // 2 + 1 columns (one for each bin of
\* the one-sided spectrum) whose entries are all non-negative.
C11_FilterbankShapeNonNegative ==
    (/\ MelCalled
     /\ mel_args.n_mels >= 1
     /\ ~MelArgsDegenerate
     /\ mel_args.norm \in SupportedNorms) =>
        /\ mel_exc = "none"
        /\ mel_ret # NoValue
        /\ mel_ret.shape = <<mel_args.n_mels, NumBins(mel_args.n_fft)>>
        /\ Len(mel_ret.data) = mel_args.n_mels
        /\ \A i \in 1..mel_args.n_mels :
              /\ Len(mel_ret.data[i]) = NumBins(mel_args.n_fft)
              /\ \A k \in 1..NumBins(mel_args.n_fft) :
                    RLeq(R(0), mel_ret.data[i][k])

(***************************************************************************)
(* SpecScale: hz_to_mel followed by mel_to_hz, on a number or an array.    *)
(* A value is its elements v and ndim: 0 for a number, 1 for an array.     *)
(* The frequencies are those below 1000 Hz, where the Slaney scale is      *)
(* linear, and the points above on which log and exp are exact.            *)
(***************************************************************************)
ScaleMaxLen == 2

\* np.asanyarray, then the branch on ndim
hz_to_mel_any(frequencies, htk) ==
    IF frequencies.ndim = 0
    THEN [ndim |-> 0, v |-> <<hz_to_mel(frequencies.v[1], htk)>>]
    ELSE [ndim |-> 1, v |-> hz_to_mel_nd(frequencies.v, htk)]

mel_to_hz_any(mels, htk) ==
    IF mels.ndim = 0
    THEN [ndim |-> 0, v |-> <<mel_to_hz(mels.v[1], htk)>>]
    ELSE [ndim |-> 1, v |-> mel_to_hz_nd(mels.v, htk)]

SlaneyFrequencies ==
    {R(0), <<1, 2>>, R(100), R(999)}
        \cup {RMul(MIN_LOG_HZ, RPow(LOG_BASE, j)) : j \in 0..MaxLogSteps}

HtkFrequencies ==
    {RMul(R(700), RSub(RPow(R(10), j), R(1))) : j \in 0..MaxLogSteps}

ScaleFrequencies(htk) == IF htk THEN HtkFrequencies ELSE SlaneyFrequencies

ScaleInputs(htk) ==
    {[ndim |-> 0, v |-> <<f>>] : f \in ScaleFrequencies(htk)}
        \cup {[ndim |-> 1, v |-> a] :
                a \in UNION {[1..n -> ScaleFrequencies(htk)] :
                               n \in 0..ScaleMaxLen}}

ScaleInit ==
    /\ MelIdle /\ CmvnIdle /\ EmphIdle /\ DeltaIdle /\ PipeIdle /\ ExtIdle
    /\ scale_pc = "start"
    /\ scale_htk \in BOOLEAN
    /\ scale_f \in ScaleInputs(scale_htk)
    /\ scale_m = NoValue
    /\ scale_g = NoValue

HzToMel ==
    /\ scale_pc = "start"
    /\ scale_m' = hz_to_mel_any(scale_f, scale_htk)
    /\ scale_pc' = "mels"
    /\ UNCHANGED <<scale_htk, scale_f, scale_g>>
    /\ UNCHANGED notScaleVars

MelToHz ==
    /\ scale_pc = "mels"
    /\ scale_g' = mel_to_hz_any(scale_m, scale_htk)
    /\ scale_pc' = "restored"
    /\ UNCHANGED <<scale_htk, scale_f, scale_m>>
    /\ UNCHANGED notScaleVars

ScaleNext == HzToMel \/ MelToHz

SpecScale == ScaleInit /\ [][ScaleNext]_vars

\* C12: mel_to_hz gives back the frequencies hz_to_mel was given, in the HTK
\* and in the Slaney scheme, for a number and for an array (the result has
\* the input's form, and an array is converted element by element as a
\* number is); in the Slaney scheme a frequency is at or above 1000 Hz
\* exactly when its mel value is at or above 15, 1000 Hz maps to 15 mel by
\* the linear and by the logarithmic formula alike, and of two frequencies
\* the greater has the greater mel value.
C12_ScaleRoundTrip ==
    /\ scale_pc = "restored" => scale_g = scale_f
    /\ scale_pc # "start" =>
          LET f == scale_f.v
              m == scale_m.v
          IN  /\ scale_m.ndim = scale_f.ndim
              /\ Len(m) = Len(f)
              /\ \A i \in 1..Len(f) :
                    /\ m[i] = hz_to_mel(f[i], scale_htk)
                    /\ RLeq(R(0), m[i])
                    /\ ~scale_htk =>
                          /\ RLeq(R(1000), f[i]) <=> RLeq(R(15), m[i])
                          /\ f[i] = R(1000) =>
                                m[i] = RDiv(RSub(f[i], R(0)), F_SP)
              /\ \A i, j \in 1..Len(f) :
                    RLess(f[i], f[j]) <=> RLess(m[i], m[j])

C12_Witness ==
    /\ scale_pc = "restored"
    /\ ~scale_htk
    /\ scale_f.ndim = 1
    /\ Len(scale_f.v) = ScaleMaxLen
    /\ scale_f.v[1] = R(999)
    /\ scale_f.v[ScaleMaxLen] = RMul(MIN_LOG_HZ, LOG_BASE)
    /\ scale_g = scale_f

(***************************************************************************)
(* CMVN                                                                    *)
(*                                                                         *)
(* A feature tensor [channel, feature_dim, time] is an NDArray of shape    *)
(* <<C, F, T>> with data indexed [channel][feature][time]; dim counts the  *)
(* axes from 0, so dim = 2 is the time axis.  x.std() is a square root: an *)
(* element of the output is kept as [num, var], standing for               *)
(* num / (eps + sqrt(var)).                                                *)
(***************************************************************************)
PyNone == [none |-> TRUE]

\* lines 19-30
CMVN_init_unchecked(mode, dim, eps) ==
    [exc |-> "none", obj |-> [mode |-> mode, dim |-> dim, eps |-> eps]]

CMVN_init(mode, dim, eps) ==
    IF mode # "global"
    THEN [exc |-> "NotImplementedError", obj |-> NoValue]
    ELSE [exc |-> "none", obj |-> [mode |-> mode, dim |-> dim, eps |-> eps]]

\* the elements x is reduced over, for the output element (c, f, t)
Lane(x, c, f, t, dim) ==
    IF dim = 2 THEN x.data[c][f]
    ELSE IF dim = 1 THEN [i \in 1..x.shape[2] |-> x.data[c][i][t]]
    ELSE [i \in 1..x.shape[1] |-> x.data[i][f][t]]

Mean(s) == RDiv(RSum(s), R(Len(s)))

\* torch.std is the unbiased estimate: the sum of squares over N - 1
Variance(s) ==
    With(Mean(s), LAMBDA mu :
        RDiv(RSum([i \in 1..Len(s) |->
                     RMul(RSub(s[i], mu), RSub(s[i], mu))]), R(Len(s) - 1)))

\* lines 32-35; a forward that matches no mode falls off the end: None
CMVN_forward(self, x) ==
    IF self.mode = "global"
    THEN NDArray(x.shape,
            [c \in 1..x.shape[1] |-> [f \in 1..x.shape[2] |->
                [t \in 1..x.shape[3] |->
                    With(Lane(x, c, f, t, self.dim), LAMBDA lane :
                        [num |-> RSub(x.data[c][f][t], Mean(lane)),
                         var |-> Variance(lane)])]]])
    ELSE PyNone

(***************************************************************************)
(* SpecCMVN: construction of a CMVN and calls of its forward               *)
(***************************************************************************)
CmvnMaxTime == 2

CmvnModes == {"global", "utterance", "speaker"}

CmvnDims == {0, 1, 2}

CmvnFeatDims == {1, 2}

\* eps = 1e-10, kept as mantissa and decimal exponent
CmvnEps == [mant |-> 1, exp10 |-> -10]

CmvnSamples == {R(0), R(1), R(3)}

\* the tensors [1, F, T] over a set of sample values
Tensors(Fs, Ts, samples) ==
    UNION {{NDArray(<<1, F, T>>, <<d>>) : d \in [1..F -> [1..T -> samples]]} :
           F \in Fs, T \in Ts}

CmvnInputs == Tensors(CmvnFeatDims, 1..CmvnMaxTime, CmvnSamples)

CmvnInit ==
    MelIdle /\ CmvnIdle /\ EmphIdle /\ DeltaIdle /\ PipeIdle /\ ExtIdle /\ ScaleIdle

CMVNConstruct(mode, dim) ==
    \E r \in {CMVN_init(mode, dim, CmvnEps)} :
        /\ cmvn_args = NoValue
        /\ cmvn_args' = [mode |-> mode, dim |-> dim]
        /\ cmvn' = r.obj
        /\ cmvn_exc' = r.exc
        /\ cmvn_out' = NoValue
        /\ UNCHANGED notCmvnVars

CMVNForward(x) ==
    /\ cmvn # NoValue
    /\ cmvn_out = NoValue
    /\ cmvn_out' = CMVN_forward(cmvn, x)
    /\ UNCHANGED <<cmvn_args, cmvn, cmvn_exc>>
    /\ UNCHANGED notCmvnVars

\* the caller drops the object (or handles the exception) and goes on
CmvnCallerContinues ==
    /\ cmvn_args # NoValue
    /\ cmvn_args' = NoValue
    /\ cmvn' = NoValue
    /\ cmvn_exc' = "none"
    /\ cmvn_out' = NoValue
    /\ UNCHANGED notCmvnVars

CmvnNext ==
    \/ \E mode \in CmvnModes, dim \in CmvnDims : CMVNConstruct(mode, dim)
    \/ \E x \in CmvnInputs : CMVNForward(x)
    \/ CmvnCallerContinues

SpecCMVN == CmvnInit /\ [][CmvnNext]_vars

\* C1: a CMVN built with a mode other than "global" fails in the constructor
\* with NotImplementedError and leaves no object; mode "global" succeeds; so
\* every CMVN object that exists has mode "global" and no forward call ever
\* falls through without a result.
C1_CMVNFailsFast ==
    /\ cmvn # NoValue => cmvn.mode = "global"
    /\ cmvn_args # NoValue =>
          IF cmvn_args.mode = "global"
          THEN cmvn_exc = "none" /\ cmvn # NoValue
          ELSE cmvn_exc = "NotImplementedError" /\ cmvn = NoValue
                 /\ cmvn_out = NoValue
    /\ cmvn_out # PyNone

C1_Witness ==
    /\ cmvn_args # NoValue
    /\ cmvn_args.mode # "global"
    /\ cmvn_exc = "NotImplementedError"

(***************************************************************************)
(* _preemphasis and _inv_preemphasis                                       *)
(*                                                                         *)
(* A waveform [1, T] is the sequence of its T samples.                     *)
(***************************************************************************)
\* lines 300-304: cat(waveform[:, :1], waveform[:, 1:] - c * waveform[:, :-1])
preemphasis(c, waveform) ==
    [t \in 1..Len(waveform) |->
        IF t = 1 THEN waveform[1]
        ELSE RSub(waveform[t], RMul(c, waveform[t - 1]))]

\* scipy.signal.lfilter([1], [1, -c], wav): y[n] = wav[n] - (-c) * y[n-1]
RECURSIVE lfilter_to(_, _, _)
lfilter_to(a1, wav, n) ==
    IF n = 0 THEN <<>>
    ELSE With(lfilter_to(a1, wav, n - 1), LAMBDA prev :
            Append(prev,
                   IF n = 1 THEN wav[1]
                   ELSE RSub(wav[n], RMul(a1, prev[n - 1]))))

lfilter_pole(a1, wav) == lfilter_to(a1, wav, Len(wav))

inv_preemphasis_wrong_sign(c, wav) == lfilter_pole(c, wav)

\* lines 305-307
inv_preemphasis(c, wav) == lfilter_pole(RNeg(c), wav)

(***************************************************************************)
(* SpecEmph: _preemphasis followed by _inv_preemphasis                     *)
(***************************************************************************)
EmphMaxLen == 3

EmphSamples == {R(-1), R(0), <<1, 2>>}

EmphCoeffs == {R(0), <<97, 100>>, R(-2)}

EmphWaveforms == UNION {[1..n -> EmphSamples] : n \in 0..EmphMaxLen}

EmphInit ==
    /\ MelIdle /\ CmvnIdle /\ DeltaIdle /\ PipeIdle /\ ExtIdle /\ ScaleIdle
    /\ emph_pc = "start"
    /\ emph_c \in EmphCoeffs
    /\ emph_x \in EmphWaveforms
    /\ emph_y = <<>>
    /\ emph_z = <<>>

Preemphasis ==
    /\ emph_pc = "start"
    /\ emph_y' = preemphasis(emph_c, emph_x)
    /\ emph_pc' = "emphasized"
    /\ UNCHANGED <<emph_c, emph_x, emph_z>>
    /\ UNCHANGED notEmphVars

InvPreemphasis ==
    /\ emph_pc = "emphasized"
    /\ emph_z' = inv_preemphasis(emph_c, emph_y)
    /\ emph_pc' = "restored"
    /\ UNCHANGED <<emph_c, emph_x, emph_y>>
    /\ UNCHANGED notEmphVars

EmphNext == Preemphasis \/ InvPreemphasis

SpecEmph == EmphInit /\ [][EmphNext]_vars

\* C8: pre-emphasis keeps the length and the first sample, y[t] is
\* x[t] - c * x[t-1] for t > 0, and _inv_preemphasis gives back x sample
\* for sample.
C8_EmphasisRoundTrip ==
    /\ emph_pc # "start" =>
          /\ Len(emph_y) = Len(emph_x)
          /\ \A t \in 1..Len(emph_x) :
                RAdd(emph_y[t],
                     IF t = 1 THEN R(0)
                     ELSE RMul(emph_c, emph_x[t - 1])) = emph_x[t]
    /\ emph_pc = "restored" => emph_z = emph_x

C8_Witness ==
    /\ emph_pc = "restored"
    /\ Len(emph_x) = EmphMaxLen
    /\ emph_c # R(0)
    /\ emph_y # emph_x

(***************************************************************************)
(* Delta                                                                   *)
(*                                                                         *)
(* Kernels are sequences of rationals.  The tensor given to forward has    *)
(* shape <<1, F, T>> (conv2d takes one input channel) and the result       *)
(* [order + 1, feature_dim, time] has shape <<order + 1, F, T>>.  The      *)
(* model covers batch = False.                                             *)
(***************************************************************************)
Zeros(n) == [i \in 1..n |-> R(0)]

\* a normalizer that sums j * j over 1..window_size only
Normalizer_one_sided(window_size) ==
    RSum([i \in 1..window_size |-> R(i * i)])

\* lines 82-83: normalizer += j * j
Normalizer(window_size) ==
    RSum([i \in 1..(2 * window_size + 1) |->
             R((i - 1 - window_size) * (i - 1 - window_size))])

\* lines 77-86: curr[j + k + curr_offset] += j * prev[k + prev_offset], over
\* j in -window_size..window_size and every tap k of prev; then curr is
\* divided by the normalizer.  Position p (from 1) of curr receives the
\* terms with j + k + curr_offset = p - 1.
NextScale(prev, window_size) ==
    LET prev_offset == (Len(prev) - 1) \div 2
        curr_offset == prev_offset + window_size
        len         == Len(prev) + 2 * window_size
        Term(p, j)  ==
            IF -prev_offset <= (p - 1) - curr_offset - j
               /\ (p - 1) - curr_offset - j <= prev_offset
            THEN RMul(R(j), prev[(p - 1) - curr_offset - j + prev_offset + 1])
            ELSE R(0)
    IN  [p \in 1..len |->
            RDiv(RSum([i \in 1..(2 * window_size + 1) |->
                          Term(p, i - 1 - window_size)]),
                 Normalizer(window_size))]

\* lines 75-87: scales[0..order] before padding
RECURSIVE Scales(_, _)
Scales(order, window_size) ==
    IF order <= 0 THEN << <<R(1)>> >>
    ELSE With(Scales(order - 1, window_size), LAMBDA s :
            Append(s, With(s[Len(s)],
                           LAMBDA prev : NextScale(prev, window_size))))

\* lines 89-92: every kernel but the last is padded on both sides
PadScalesOf(scales) ==
    LET max_len == Len(scales[Len(scales)])
    IN  [i \in 1..Len(scales) |->
            IF i = Len(scales) THEN scales[i]
            ELSE LET padding == (max_len - Len(scales[i])) \div 2
                 IN  Zeros(padding) \o scales[i] \o Zeros(padding)]

\* a padding that keeps the length but puts all the zeros behind the kernel
PadScalesRight(scales) ==
    With(scales, LAMBDA sc :
        [i \in 1..Len(sc) |->
            sc[i] \o Zeros(Len(sc[Len(sc)]) - Len(sc[i]))])

PadScales(scales) == With(scales, LAMBDA sc : PadScalesOf(sc))

\* lines 74-94
create_filters(order, window_size) == PadScales(Scales(order, window_size))

\* lines 45-58; a zero normalizer (window_size = 0, order >= 1) makes
\* x / normalizer raise ZeroDivisionError
Delta_init(order, window_size) ==
    IF order >= 1 /\ Normalizer(window_size) = R(0)
    THEN [exc |-> "ZeroDivisionError", obj |-> NoValue]
    ELSE With(create_filters(order, window_size), LAMBDA filters :
            [exc |-> "none",
             obj |-> [order       |-> order,
                      window_size |-> window_size,
                      filters     |-> filters,
                      padding     |-> <<0, (Len(filters[1]) - 1) \div 2>>]])

\* F.conv2d along the last axis with zero padding pad: output position t
\* is the sum of kernel[k] * x[t + k - pad] over the taps k (from 0)
Conv1d(row, kernel, pad) ==
    LET T == Len(row)
        L == Len(kernel)
    IN  [t \in 1..(T + 2 * pad - L + 1) |->
            RSum([k \in 1..L |->
                LET i == t + (k - 1) - pad
                IN  IF 1 <= i /\ i <= T
                    THEN RMul(kernel[k], row[i]) ELSE R(0)])]

\* lines 60-71, batch = False
Delta_forward(self, x) ==
    LET T_out == x.shape[3] + 2 * self.padding[2] - Len(self.filters[1]) + 1
    IN  NDArray(<<Len(self.filters), x.shape[2], T_out>>,
            [c \in 1..Len(self.filters) |-> [f \in 1..x.shape[2] |->
                Conv1d(x.data[1][f], self.filters[c], self.padding[2])]])

(***************************************************************************)
(* SpecDelta: construction of a Delta and calls of its forward             *)
(***************************************************************************)
DeltaMaxOrder == 2

DeltaMaxWindow == 2

DeltaMaxTime == 3

DeltaFeatDims == {1, 2}

DeltaSamples == {R(0), R(1)}

DeltaInputs == Tensors(DeltaFeatDims, 1..DeltaMaxTime, DeltaSamples)

DeltaInit ==
    MelIdle /\ CmvnIdle /\ EmphIdle /\ DeltaIdle /\ PipeIdle /\ ExtIdle /\ ScaleIdle

DeltaConstruct(order, window_size) ==
    \E r \in {Delta_init(order, window_size)} :
        /\ delta_args = NoValue
        /\ delta_args' = [order |-> order, window_size |-> window_size]
        /\ delta' = r.obj
        /\ delta_exc' = r.exc
        /\ UNCHANGED <<delta_in, delta_out>>
        /\ UNCHANGED notDeltaVars

DeltaForward(x) ==
    /\ delta # NoValue
    /\ delta_in = NoValue
    /\ delta_in' = x
    /\ delta_out' = Delta_forward(delta, x)
    /\ UNCHANGED <<delta_args, delta, delta_exc>>
    /\ UNCHANGED notDeltaVars

\* the caller drops the object (or handles the exception) and goes on
DeltaCallerContinues ==
    /\ delta_args # NoValue
    /\ delta_args' = NoValue
    /\ delta' = NoValue
    /\ delta_exc' = "none"
    /\ delta_in' = NoValue
    /\ delta_out' = NoValue
    /\ UNCHANGED notDeltaVars

DeltaNext ==
    \/ \E order \in 0..DeltaMaxOrder, window_size \in 0..DeltaMaxWindow :
          DeltaConstruct(order, window_size)
    \/ \E x \in DeltaInputs : DeltaForward(x)
    \/ DeltaCallerContinues

SpecDelta == DeltaInit /\ [][DeltaNext]_vars

\* C9: kernel 0 of every Delta is the identity filter (a single 1 at the
\* centre tap), and channel 0 of forward's output is the input, unchanged at
\* every time position, first and last frame included.
C9_OrderZeroIsIdentity ==
    /\ delta # NoValue =>
          LET k0 == delta.filters[1]
              c  == (Len(k0) + 1) \div 2
          IN  /\ Len(k0) = 2 * c - 1
              /\ \A i \in 1..Len(k0) : k0[i] = (IF i = c THEN R(1) ELSE R(0))
    /\ delta_out # NoValue =>
          /\ delta_out.shape[3] = delta_in.shape[3]
          /\ delta_out.data[1] = delta_in.data[1]

C9_Witness ==
    /\ delta_out # NoValue
    /\ delta.order = DeltaMaxOrder
    /\ delta.window_size >= 1
    /\ delta_in.shape[3] = DeltaMaxTime
    /\ \E f \in 1..delta_in.shape[2] :
          delta_in.data[1][f][1] # delta_in.data[1][f][DeltaMaxTime]
    /\ delta_out.data[2] # delta_in.data[1]

\* C13: for order >= 1 and window_size W >= 1 the Delta holds order + 1
\* kernels of length 1 + 2 * order * W each.  Kernel i is its unpadded form
\* of length 1 + 2 * i * W with (order - i) * W zeros on either side, so
\* the centre taps are aligned.  Unpadded kernel 0 is [1], and unpadded
\* kernel i is the discrete convolution of unpadded kernel i - 1 with the
\* ramp (-W, ..., W), divided by the sum of j * j over j in -W..W.
C13_KernelsAreRampConvolutions ==
    (/\ delta_args # NoValue
     /\ delta_args.order >= 1
     /\ delta_args.window_size >= 1) =>
        /\ delta_exc = "none"
        /\ delta # NoValue
        /\ LET W == delta_args.window_size
               n == delta_args.order
               K == delta.filters
               L == 1 + 2 * n * W
               pad(i) == (n - i) * W
               Core(i, p) == K[i + 1][pad(i) + p + 1]
               Prev(i, k) == IF 0 <= k /\ k <= 2 * (i - 1) * W
                             THEN Core(i - 1, k) ELSE R(0)
               SumSq == (W * (W + 1) * (2 * W + 1)) \div 3
           IN  /\ Len(K) = n + 1
               /\ \A i \in 0..n :
                     /\ Len(K[i + 1]) = L
                     /\ \A q \in 1..L :
                           (q <= pad(i) \/ q > L - pad(i)) => K[i + 1][q] = R(0)
               /\ Core(0, 0) = R(1)
               /\ \A i \in 1..n : \A p \in 0..(2 * i * W) :
                     RMul(R(SumSq), Core(i, p)) =
                        RSum([a \in 1..(2 * W + 1) |->
                                 RMul(R(a - 1 - W), Prev(i, p - (a - 1)))])

C13_Witness ==
    /\ delta # NoValue
    /\ delta.order = DeltaMaxOrder
    /\ delta.order >= 2
    /\ delta.window_size = DeltaMaxWindow
    /\ delta.window_size >= 2
    /\ delta.filters[2][1] = R(0)
    /\ delta.filters[2][delta.window_size + 1] # R(0)
    /\ delta.filters[delta.order + 1][1] # R(0)

(***************************************************************************)
(* Postprocess and create_transform                                        *)
(*                                                                         *)
(* A stage of the Sequential is a record with its class name in `type`.    *)
(* create_transform always builds the extractor for SAMPLE_RATE = 16000,   *)
(* whose band edges are not rational: here the extractor stage is kept by  *)
(* its configuration and the shape of its filterbank, and its forward      *)
(* yields some [1, num_mel_bins, T] tensor of normalized features.  The    *)
(* model covers configurations with the augmentations off (the defaults).  *)
(***************************************************************************)
SAMPLE_RATE == 16000

N_FFT == 1025

Waveform == [waveform |-> TRUE]

\* lines 104-107
Postprocess_init(detach, batch) ==
    [type |-> "Postprocess", detach |-> detach, batch |-> batch]

\* lines 109-122, batch = False: permute(2, 0, 1) takes [C, F, T] to
\* [T, C, F]; reshape(T, -1) then flattens each [C, F] block row by row
Postprocess_forward(self, x) ==
    LET C == x.shape[1]
        F == x.shape[2]
        T == x.shape[3]
    IN  IF self.detach
        THEN NDArray(<<T, C * F>>,
                [t \in 1..T |-> [j \in 1..(C * F) |->
                    x.data[((j - 1) \div F) + 1][((j - 1) % F) + 1][t]]])
        ELSE NDArray(<<T, C, F>>,
                [t \in 1..T |-> [c \in 1..C |-> [f \in 1..F |->
                    x.data[c][f][t]]]])

\* lines 193-225 as far as the pipeline's shapes depend on them
ExtractStage(num_mel_bins) ==
    [type |-> "ExtractAudioFeature", num_mel_bins |-> num_mel_bins,
     sr |-> SAMPLE_RATE, n_fft |-> N_FFT,
     fb_shape |-> <<NumBins(N_FFT), num_mel_bins>>]

\* lines 395-424: the stages, given the Delta stage (if any)
Stages(cfg, delta_stage, post_process) ==
    << [type |-> "ReadAudio", desired_sr |-> SAMPLE_RATE],
       ExtractStage(cfg.feat_dim) >>
    \o delta_stage
    \o (IF cfg.apply_cmvn
        THEN << [type |-> "CMVN"] @@ CMVN_init("global", 2, CmvnEps).obj >>
        ELSE << >>)
    \o (IF post_process THEN << Postprocess_init(TRUE, FALSE) >> ELSE << >>)

\* line 426
FeatDim(cfg) == cfg.feat_dim * (cfg.delta_order + 1)

BuildTransform(cfg, post_process, with_delta) ==
    IF with_delta
    THEN With(Delta_init(cfg.delta_order, cfg.delta_window_size),
              LAMBDA d :
                 IF d.exc # "none"
                 THEN [exc |-> d.exc, transforms |-> << >>, feat_dim |-> 0]
                 ELSE [exc |-> "none",
                       transforms |->
                           Stages(cfg, << [type |-> "Delta"] @@ d.obj >>,
                                  post_process),
                       feat_dim |-> FeatDim(cfg)])
    ELSE [exc |-> "none",
          transforms |-> Stages(cfg, << >>, post_process),
          feat_dim |-> FeatDim(cfg)]

\* a Delta stage only from the second order on
create_transform_delta_from_2(cfg, post_process) ==
    BuildTransform(cfg, post_process, cfg.delta_order >= 2)

\* lines 385-426
create_transform(cfg, post_process) ==
    BuildTransform(cfg, post_process, cfg.delta_order >= 1)

(***************************************************************************)
(* SpecPipeline: create_transform and one run of the Sequential it built   *)
(***************************************************************************)
PipeMaxOrder == 2

PipeMaxTime == 2

PipeFeatDims == {1, 2}

PipeSamples == {R(0), R(1)}

PipeWindows == {0, 1, 2}

PipeConfigs ==
    [delta_order : 0..PipeMaxOrder, delta_window_size : PipeWindows,
     apply_cmvn : BOOLEAN, feat_dim : PipeFeatDims]

PipeInit ==
    MelIdle /\ CmvnIdle /\ EmphIdle /\ DeltaIdle /\ PipeIdle /\ ExtIdle /\ ScaleIdle

CreateTransform(cfg, post_process) ==
    /\ pipe_args = NoValue
    /\ \E r \in {create_transform(cfg, post_process)} :
        /\ pipe_args' = [cfg |-> cfg, post_process |-> post_process]
        /\ pipe_transforms' = r.transforms
        /\ pipe_feat_dim' = r.feat_dim
        /\ pipe_exc' = r.exc
        /\ pipe_stage' = IF r.exc = "none" THEN 1 ELSE 0
        /\ pipe_in' = NoValue
        /\ pipe_x' = Waveform
    /\ UNCHANGED notPipeVars

PipeAt(type) ==
    /\ pipe_stage >= 1
    /\ pipe_stage <= Len(pipe_transforms)
    /\ pipe_transforms[pipe_stage].type = type

\* lines 359-361: what is not a path is passed on as it is
PipeReadAudio ==
    /\ PipeAt("ReadAudio")
    /\ pipe_stage' = pipe_stage + 1
    /\ UNCHANGED <<pipe_args, pipe_transforms, pipe_feat_dim, pipe_exc,
                   pipe_in, pipe_x>>
    /\ UNCHANGED notPipeVars

\* lines 227-240: the features of some waveform, [1, num_mel_bins, T]
PipeExtract(msp) ==
    /\ PipeAt("ExtractAudioFeature")
    /\ msp.shape[2] = pipe_transforms[pipe_stage].num_mel_bins
    /\ pipe_in' = msp
    /\ pipe_x' = msp
    /\ pipe_stage' = pipe_stage + 1
    /\ UNCHANGED <<pipe_args, pipe_transforms, pipe_feat_dim, pipe_exc>>
    /\ UNCHANGED notPipeVars

PipeDelta ==
    /\ PipeAt("Delta")
    /\ pipe_x' = Delta_forward(pipe_transforms[pipe_stage], pipe_x)
    /\ pipe_stage' = pipe_stage + 1
    /\ UNCHANGED <<pipe_args, pipe_transforms, pipe_feat_dim, pipe_exc,
                   pipe_in>>
    /\ UNCHANGED notPipeVars

PipeCMVN ==
    /\ PipeAt("CMVN")
    /\ pipe_x' = CMVN_forward(pipe_transforms[pipe_stage], pipe_x)
    /\ pipe_stage' = pipe_stage + 1
    /\ UNCHANGED <<pipe_args, pipe_transforms, pipe_feat_dim, pipe_exc,
                   pipe_in>>
    /\ UNCHANGED notPipeVars

PipePostprocess ==
    /\ PipeAt("Postprocess")
    /\ pipe_x' = Postprocess_forward(pipe_transforms[pipe_stage], pipe_x)
    /\ pipe_stage' = pipe_stage + 1
    /\ UNCHANGED <<pipe_args, pipe_transforms, pipe_feat_dim, pipe_exc,
                   pipe_in>>
    /\ UNCHANGED notPipeVars

PipeDone ==
    /\ pipe_transforms # << >>
    /\ pipe_stage = Len(pipe_transforms) + 1

\* the caller has the output (or the exception) and goes on
PipeCallerContinues ==
    /\ PipeDone \/ pipe_exc # "none"
    /\ pipe_args' = NoValue
    /\ pipe_transforms' = << >>
    /\ pipe_feat_dim' = 0
    /\ pipe_exc' = "none"
    /\ pipe_stage' = 0
    /\ pipe_in' = NoValue
    /\ pipe_x' = NoValue
    /\ UNCHANGED notPipeVars

PipeNext ==
    \/ \E cfg \in PipeConfigs, post_process \in BOOLEAN :
          CreateTransform(cfg, post_process)
    \/ PipeReadAudio
    \/ \E msp \in Tensors(PipeFeatDims, 1..PipeMaxTime, PipeSamples) :
          PipeExtract(msp)
    \/ PipeDelta
    \/ PipeCMVN
    \/ PipePostprocess
    \/ PipeCallerContinues

SpecPipeline == PipeInit /\ [][PipeNext]_vars

PipeHasDelta ==
    \E i \in 1..Len(pipe_transforms) : pipe_transforms[i].type = "Delta"

\* C10: the pipeline create_transform builds (with its Postprocess stage,
\* the default) turns features of T frames by F mel bands into a matrix of
\* exactly T rows and F * (delta_order + 1) columns, the column count is the
\* feature dimension create_transform returned, and the pipeline has a
\* Delta stage exactly when delta_order >= 1.
C10_PipelineShape ==
    /\ (pipe_args # NoValue /\ pipe_exc = "none") =>
          /\ PipeHasDelta <=> pipe_args.cfg.delta_order >= 1
          /\ pipe_feat_dim =
                pipe_args.cfg.feat_dim * (pipe_args.cfg.delta_order + 1)
    /\ (PipeDone /\ pipe_args.post_process) =>
          LET T == pipe_in.shape[3]
              F == pipe_in.shape[2]
              cols == F * (pipe_args.cfg.delta_order + 1)
          IN  /\ pipe_x.shape = <<T, cols>>
              /\ Len(pipe_x.data) = T
              /\ \A t \in 1..T : Len(pipe_x.data[t]) = cols
              /\ cols = pipe_feat_dim

\* C10 as stated, for every pipeline create_transform builds: the output
\* of a run is a matrix of T rows and F * (delta_order + 1) columns.
C10_EveryPipelineFlattens ==
    PipeDone =>
        pipe_x.shape = <<pipe_in.shape[3],
                         pipe_in.shape[2] * (pipe_args.cfg.delta_order + 1)>>

C10_Witness ==
    /\ PipeDone
    /\ pipe_args.post_process
    /\ pipe_args.cfg.delta_order = PipeMaxOrder
    /\ pipe_args.cfg.feat_dim = 2
    /\ pipe_in.shape[3] = PipeMaxTime
    /\ pipe_x.shape = <<PipeMaxTime, 2 * (PipeMaxOrder + 1)>>

(***************************************************************************)
(* ExtractAudioFeature                                                     *)
(*                                                                         *)
(* The transforms of torch / torchaudio are not part of the source.  The   *)
(* spectra of forward stand for to_melspecgram(to_specgram(x).sqrt()) of   *)
(* some pre-emphasized waveform x: a matrix of amplitudes on the lattice   *)
(* on which log10 is exact.  torch.pinverse, stft and istft yield values   *)
(* known by where they come from only: which pseudo-inverse (the n-th      *)
(* computed for this object), which inverse transform (the n-th of the     *)
(* call).                                                                  *)
(***************************************************************************)
Transpose(a) ==
    NDArray(<<a.shape[2], a.shape[1]>>,
            [k \in 1..a.shape[2] |-> [i \in 1..a.shape[1] |-> a.data[i][k]]])

\* lines 194-225; mode, the levels and the coefficient are stored as given
ExtractAudioFeature_init(mode, num_mel_bins, frame_length, frame_shift,
                         ref_level_db, min_level_db, preemphasis_coeff,
                         sample_rate) ==
    With(create_mel_filterbank(sample_rate, N_FFT, num_mel_bins, R(0),
                               NoValue, FALSE, "1"),
         LAMBDA b :
            IF b.exc # "none" THEN [exc |-> b.exc, obj |-> NoValue]
            ELSE [exc |-> "none",
                  obj |-> [mode |-> mode,
                           sr |-> sample_rate,
                           n_fft |-> N_FFT,
                           hop_length |-> (frame_shift * sample_rate) \div 1000,
                           win_length |-> (frame_length * sample_rate) \div 1000,
                           num_mel_bins |-> num_mel_bins,
                           ref_level_db |-> ref_level_db,
                           min_level_db |-> min_level_db,
                           preemphasis_coeff |-> preemphasis_coeff,
                           fb |-> Transpose(b.ret)]])

\* lines 308-309: 20 * log10(clamp(x, min=1e-5))
amp_to_db(x) ==
    RMul(R(20), Log10(RMax(x, RDiv(R(1), RPow(R(10), AMP_MIN_EXP)))))

\* lines 310-311: 10 ** (0.05 * x)
db_to_amp(x) == Pow10(RMul(<<1, 20>>, x))

\* (feat - min_level_db) / -min_level_db, not clamped
normalize_unclamped(self, feat) ==
    RDiv(RSub(feat, R(self.min_level_db)), R(-self.min_level_db))

\* lines 312-313
normalize(self, feat) ==
    RMin(RMax(RDiv(RSub(feat, R(self.min_level_db)), R(-self.min_level_db)),
              R(0)),
         R(1))

\* lines 314-315
denormalize(self, feat) ==
    RAdd(R(self.min_level_db),
         RMul(RMin(RMax(feat, R(0)), R(1)), R(-self.min_level_db)))

\* lines 235, 237-240 on the amplitudes melspecgram = [1, MEL, T]
ExtractAudioFeature_forward(self, melspecgram) ==
    NDArray(<<1, melspecgram.shape[2], melspecgram.shape[3]>>,
        << [m \in 1..melspecgram.shape[2] |->
              [t \in 1..melspecgram.shape[3] |->
                  normalize(self,
                      RSub(amp_to_db(melspecgram.data[1][m][t]),
                           R(self.ref_level_db)))]] >>)

\* lines 263: _db_to_amp(_denormalize(melspecgram) + ref_level_db)
MelAmplitudes(self, melspecgram) ==
    NDArray(melspecgram.shape,
        [m \in 1..melspecgram.shape[1] |->
            [t \in 1..melspecgram.shape[2] |->
                db_to_amp(RAdd(denormalize(self, melspecgram.data[m][t]),
                               R(self.ref_level_db)))]])

\* the filterbank is transposed in place for the pseudo-inverse
melspecgram_to_specgram_inplace(self, melspecgram, n) ==
    [fb |-> Transpose(self.fb),
     ret |-> [shape |-> <<self.fb.shape[1], melspecgram.shape[2]>>,
              fb_pinv |-> n,
              melspecgram |-> MelAmplitudes(self, melspecgram)]]

\* lines 254-265: melspecgram is [MEL, T]; the result is the product of
\* the n-th pseudo-inverse computed for self (transposed: [FREQ, MEL]) and
\* the amplitudes; fb is the filterbank as the call leaves it
melspecgram_to_specgram(self, melspecgram, n) ==
    [fb |-> self.fb,
     ret |-> [shape |-> <<self.fb.shape[1], melspecgram.shape[2]>>,
              fb_pinv |-> n,
              melspecgram |-> MelAmplitudes(self, melspecgram)]]

\* lines 286-292: random phases, and the first inverse transform
griffin_lim_begin(specgram) ==
    [magnitude |-> specgram,
     phases |-> [source |-> "random", of |-> NoValue],
     x |-> [istft |-> 1],
     i |-> 0]

FIXED_ITER == 30

\* the loop ends one iteration early
griffin_lim_continues_early(g) == g.i < FIXED_ITER - 1

\* line 293: for _ in range(30)
griffin_lim_continues(g) == g.i < FIXED_ITER

\* lines 294-297: the phases of the forward transform of x, and the next
\* inverse transform
griffin_lim_step(g) ==
    [magnitude |-> g.magnitude,
     phases |-> [source |-> "stft", of |-> g.x],
     x |-> [istft |-> g.x.istft + 1],
     i |-> g.i + 1]

\* lines 274-277 after _griffin_lim returned x
specgram_to_waveform_end(self, x, inv_pre) ==
    [clip |-> <<-1, 1>>,
     wav |-> IF inv_pre
             THEN [lfilter |-> <<1, RNeg(self.preemphasis_coeff)>>, x |-> x]
             ELSE x]

(***************************************************************************)
(* Spec: one ExtractAudioFeature and one Delta, and the calls made on them *)
(* one after the other.  The frame settings give short utterances a few    *)
(* frames: a waveform the reflect padding of the transform accepts has     *)
(* more than n_fft // 2 samples, hence at least MinFrames frames.          *)
(***************************************************************************)
ExtMaxFrames == 2

MaxPinv == 2

ExtSampleRates == {1000, 2000}

ExtMelBins == {1, 2}

ExtMinLevels == {-100, 0}

ExtRefLevels == {20}

ExtFrameMs == 500

ExtCoeff == <<97, 100>>

ExtBudgets == {1, GRIFFIN_LIM_ITER}

ExtAmps == {R(0), <<1, 100000>>, <<1, 1000>>, R(1), R(100)}

ExtFeatureValues == {R(-1), <<4, 5>>, R(2)}

ExtDeltaInputs == Tensors({1}, 1..ExtMaxFrames, DeltaSamples)

\* center=True: 1 + length // hop_length frames
MinFrames(self) == 1 + (self.n_fft \div 2 + 1) \div self.hop_length

\* [1, F, T] with `peak` in the last cell and `base` in the others
PeakTensor(F, T, base, peak) ==
    NDArray(<<1, F, T>>,
        << [f \in 1..F |-> [t \in 1..T |->
               IF f = F /\ t = T THEN peak ELSE base]] >>)

\* [T, D] with one value in every cell
FlatMatrix(T, D, v) == NDArray(<<T, D>>, [t \in 1..T |-> [d \in 1..D |-> v]])

\* a spectrogram [FREQ, T] the caller has
CallerSpecgram(T) ==
    [shape |-> <<NumBins(N_FFT), T>>, fb_pinv |-> 0,
     melspecgram |-> NoValue]

Init == MelIdle /\ CmvnIdle /\ EmphIdle /\ DeltaIdle /\ PipeIdle /\ ExtIdle /\ ScaleIdle

NoCallInFlight == ext_call = "none" /\ delta_in = NoValue

\* the caller rebinds the module global before building anything
SetGriffinLimIter(n) ==
    /\ NoCallInFlight
    /\ ext = NoValue /\ ext_exc = "none" /\ delta_args = NoValue
    /\ n # griffin_lim_iter
    /\ griffin_lim_iter' = n
    /\ UNCHANGED <<ext, ext_exc, ext_call, ext_pc, ext_in, ext_out, gl,
                   pinv_count>>
    /\ UNCHANGED notExtVars

ExtConstruct(num_mel_bins, min_level_db, ref_level_db, sample_rate) ==
    /\ NoCallInFlight
    /\ ext = NoValue /\ ext_exc = "none"
    /\ \E r \in {ExtractAudioFeature_init("fbank", num_mel_bins, ExtFrameMs,
                     ExtFrameMs, ref_level_db, min_level_db, ExtCoeff,
                     sample_rate)} :
        /\ ext' = r.obj
        /\ ext_exc' = r.exc
    /\ pinv_count' = 0
    /\ UNCHANGED <<griffin_lim_iter, ext_call, ext_pc, ext_in, ext_out, gl>>
    /\ UNCHANGED notExtVars

ExtForward(melspecgram) ==
    /\ NoCallInFlight
    /\ ext # NoValue
    /\ melspecgram.shape[2] = ext.num_mel_bins
    /\ melspecgram.shape[3] >= MinFrames(ext)
    /\ ext_call' = "forward"
    /\ ext_pc' = "returned"
    /\ ext_in' = melspecgram
    /\ ext_out' = ExtractAudioFeature_forward(ext, melspecgram)
    /\ UNCHANGED <<griffin_lim_iter, ext, ext_exc, gl, pinv_count>>
    /\ UNCHANGED notExtVars

ExtMelspecgramToSpecgram(melspecgram) ==
    /\ NoCallInFlight
    /\ ext # NoValue
    /\ pinv_count < MaxPinv
    /\ melspecgram.shape[1] = ext.num_mel_bins
    /\ \E r \in {melspecgram_to_specgram(ext, melspecgram, pinv_count + 1)} :
        /\ ext' = [ext EXCEPT !.fb = r.fb]
        /\ ext_out' = r.ret
    /\ pinv_count' = pinv_count + 1
    /\ ext_call' = "melspecgram_to_specgram"
    /\ ext_pc' = "returned"
    /\ ext_in' = melspecgram
    /\ UNCHANGED <<griffin_lim_iter, ext_exc, gl>>
    /\ UNCHANGED notExtVars

\* lines 267-274 up to the loop of _griffin_lim
ExtSpecgramToWaveform(specgram, inv_pre) ==
    /\ NoCallInFlight
    /\ ext # NoValue
    /\ ext_call' = "specgram_to_waveform"
    /\ ext_pc' = "griffin_lim"
    /\ ext_in' = [specgram |-> specgram, inv_preemphasis |-> inv_pre]
    /\ gl' = griffin_lim_begin(specgram)
    /\ UNCHANGED <<griffin_lim_iter, ext, ext_exc, ext_out, pinv_count>>
    /\ UNCHANGED notExtVars

\* lines 246-251 up to the loop of _griffin_lim; mel_spec is [T, D]
ExtFeatToWave(mel_spec) ==
    /\ NoCallInFlight
    /\ ext # NoValue
    /\ pinv_count < MaxPinv
    /\ mel_spec.shape[2] = ext.num_mel_bins
    /\ \E r \in {melspecgram_to_specgram(ext, Transpose(mel_spec),
                                         pinv_count + 1)} :
        /\ ext' = [ext EXCEPT !.fb = r.fb]
        /\ gl' = griffin_lim_begin(r.ret)
    /\ pinv_count' = pinv_count + 1
    /\ ext_call' = "feat_to_wave"
    /\ ext_pc' = "griffin_lim"
    /\ ext_in' = [specgram |-> mel_spec, inv_preemphasis |-> TRUE]
    /\ UNCHANGED <<griffin_lim_iter, ext_exc, ext_out>>
    /\ UNCHANGED notExtVars

\* lines 293-297: one iteration
GriffinLimStep ==
    /\ ext_pc = "griffin_lim"
    /\ griffin_lim_continues(gl)
    /\ gl' = griffin_lim_step(gl)
    /\ UNCHANGED <<griffin_lim_iter, ext, ext_exc, ext_call, ext_pc, ext_in,
                   ext_out, pinv_count>>
    /\ UNCHANGED notExtVars

\* line 298, then lines 275-277 (and line 252 in feat_to_wave)
GriffinLimReturn ==
    /\ ext_pc = "griffin_lim"
    /\ ~griffin_lim_continues(gl)
    /\ \E wave \in {specgram_to_waveform_end(ext, gl.x,
                                             ext_in.inv_preemphasis)} :
        ext_out' = IF ext_call = "feat_to_wave" THEN <<wave, ext.sr>>
                   ELSE wave
    /\ ext_pc' = "returned"
    /\ UNCHANGED <<griffin_lim_iter, ext, ext_exc, ext_call, ext_in, gl,
                   pinv_count>>
    /\ UNCHANGED notExtVars

\* the caller has the result and goes on
ExtCallReturns ==
    /\ ext_pc = "returned"
    /\ ext_call' = "none"
    /\ ext_pc' = "idle"
    /\ ext_in' = NoValue
    /\ ext_out' = NoValue
    /\ gl' = NoValue
    /\ UNCHANGED <<griffin_lim_iter, ext, ext_exc, pinv_count>>
    /\ UNCHANGED notExtVars

\* the caller drops the object (or handles the exception)
ExtCallerDrops ==
    /\ NoCallInFlight
    /\ ext # NoValue \/ ext_exc # "none"
    /\ ext' = NoValue
    /\ ext_exc' = "none"
    /\ pinv_count' = 0
    /\ UNCHANGED <<griffin_lim_iter, ext_call, ext_pc, ext_in, ext_out, gl>>
    /\ UNCHANGED notExtVars

ExtDeltaConstruct(order, window_size) ==
    /\ NoCallInFlight
    /\ DeltaConstruct(order, window_size)

ExtDeltaForward(x) ==
    /\ NoCallInFlight
    /\ DeltaForward(x)

DeltaCallReturns ==
    /\ delta_in # NoValue
    /\ delta_in' = NoValue
    /\ delta_out' = NoValue
    /\ UNCHANGED <<delta_args, delta, delta_exc>>
    /\ UNCHANGED notDeltaVars

ExtDeltaDrops ==
    /\ NoCallInFlight
    /\ DeltaCallerContinues

Next ==
    \/ \E n \in ExtBudgets : SetGriffinLimIter(n)
    \/ \E num_mel_bins \in ExtMelBins, min_level_db \in ExtMinLevels,
          ref_level_db \in ExtRefLevels, sample_rate \in ExtSampleRates :
          ExtConstruct(num_mel_bins, min_level_db, ref_level_db, sample_rate)
    \/ \E F \in ExtMelBins, T \in 1..ExtMaxFrames, base \in ExtAmps,
          peak \in ExtAmps : ExtForward(PeakTensor(F, T, base, peak))
    \/ \E D \in ExtMelBins, T \in 1..ExtMaxFrames, v \in ExtFeatureValues :
          ExtMelspecgramToSpecgram(FlatMatrix(D, T, v))
    \/ \E T \in 1..ExtMaxFrames, inv_pre \in BOOLEAN :
          ExtSpecgramToWaveform(CallerSpecgram(T), inv_pre)
    \/ \E D \in ExtMelBins, T \in 1..ExtMaxFrames, v \in ExtFeatureValues :
          ExtFeatToWave(FlatMatrix(T, D, v))
    \/ GriffinLimStep
    \/ GriffinLimReturn
    \/ ExtCallReturns
    \/ ExtCallerDrops
    \/ \E order \in 0..1, window_size \in 1..1 :
          ExtDeltaConstruct(order, window_size)
    \/ \E x \in ExtDeltaInputs : ExtDeltaForward(x)
    \/ DeltaCallReturns
    \/ ExtDeltaDrops

Spec == Init /\ [][Next]_vars

GriffinLimReturned ==
    /\ ext_pc = "returned"
    /\ ext_call \in {"specgram_to_waveform", "feat_to_wave"}

\* the time-domain signal the returned waveform was made from
ReturnedSignal ==
    LET wave == IF ext_call = "feat_to_wave" THEN ext_out[1] ELSE ext_out
    IN  IF ext_in.inv_preemphasis THEN wave.wav.x ELSE wave.wav

\* C4, as stated: Griffin-Lim runs exactly as many iterations as the budget
\* the caller has configured (GRIFFIN_LIM_ITER).
C4_RunsConfiguredBudget ==
    GriffinLimReturned => gl.i = griffin_lim_iter

\* C4, amended: whatever the caller sets and whatever the input,
\* Griffin-Lim starts from a random phase, applies the phase update exactly
\* 30 times (each followed by one inverse transform) and returns the
\* waveform of the last inverse transform, the 31st of the call; the loop
\* does not end earlier or later.
C4_ThirtyIterationsAlways ==
    /\ gl # NoValue =>
          /\ gl.i <= FIXED_ITER
          /\ gl.x = [istft |-> gl.i + 1]
          /\ gl.i = 0 <=> gl.phases.source = "random"
          /\ gl.i > 0 =>
                gl.phases = [source |-> "stft", of |-> [istft |-> gl.i]]
    /\ GriffinLimReturned =>
          /\ gl.i = FIXED_ITER
          /\ ReturnedSignal = [istft |-> FIXED_ITER + 1]

C4_Witness ==
    /\ GriffinLimReturned
    /\ ext_call = "feat_to_wave"
    /\ griffin_lim_iter # GRIFFIN_LIM_ITER
    /\ gl.i = FIXED_ITER
    /\ ReturnedSignal = gl.x

\* C5: over the calls made on one ExtractAudioFeature, the pseudo-inverse
\* of the filterbank is computed at most once.
C5_PinverseComputedOnce == pinv_count <= 1

\* C6: once constructed, the filterbank of an ExtractAudioFeature and the
\* kernels of a Delta stay as construction left them, whichever of forward,
\* melspecgram_to_specgram, specgram_to_waveform, feat_to_wave and
\* Delta.forward is called, in any order.
C6_FiltersNeverModified ==
    [][ /\ (ext # NoValue /\ ext' # NoValue) => ext'.fb = ext.fb
        /\ (delta # NoValue /\ delta' # NoValue) =>
               delta'.filters = delta.filters ]_vars

C6_Witness ==
    /\ ext # NoValue
    /\ pinv_count = MaxPinv
    /\ ext.fb.shape = <<NumBins(N_FFT), ext.num_mel_bins>>
    /\ delta # NoValue
    /\ delta.order = 1
    /\ delta_out # NoValue

\* C7: with min_level_db < 0 every element forward returns is in [0, 1]:
\* it is 0 where the level (dB less ref_level_db) is at or below
\* min_level_db, 1 where the level is at or above 0, and linear in the level
\* in between.
C7_ForwardInUnitRange ==
    (ext_call = "forward" /\ ext.min_level_db < 0) =>
        \A m \in 1..ext_out.shape[2], t \in 1..ext_out.shape[3] :
            LET v == ext_out.data[1][m][t]
                d == RSub(amp_to_db(ext_in.data[1][m][t]),
                          R(ext.ref_level_db))
                lo == R(ext.min_level_db)
            IN  /\ RLeq(R(0), v) /\ RLeq(v, R(1))
                /\ RLeq(d, lo) => v = R(0)
                /\ RLeq(R(0), d) => v = R(1)
                /\ (RLess(lo, d) /\ RLess(d, R(0))) =>
                       RAdd(RMul(v, RNeg(lo)), lo) = d

C7_Witness ==
    /\ ext_call = "forward"
    /\ ext.min_level_db < 0
    /\ \E m \in 1..ext_out.shape[2], t \in 1..ext_out.shape[3] :
          /\ RLess(R(0), RSub(amp_to_db(ext_in.data[1][m][t]),
                              R(ext.ref_level_db)))
          /\ ext_out.data[1][m][t] = R(1)
    /\ \E m \in 1..ext_out.shape[2], t \in 1..ext_out.shape[3] :
          /\ RLess(R(0), ext_out.data[1][m][t])
          /\ RLess(ext_out.data[1][m][t], R(1))

====
